---------------------------- MODULE Spec2Model ----------------------------
(***************************************************************************)
(* Model of the Arduino sketch BouncingBoxes.ino: BALLCOUNT boxes of class *)
(* Ball bounce on a TFT surface; loop() gates the work to a time step and  *)
(* then moves, erases and draws every ball in three passes.                *)
(*                                                                         *)
(* Numbers.  A float is IEEE-754 binary32 on every board; it is modelled   *)
(* as a pair <<m, e>> standing for m * 2^e, with m = 0 or                  *)
(* 2^23 <= |m| < 2^24, and every operation rounds to nearest, ties to      *)
(* even.  The width of double depends on the build: 32 bits on the AVR     *)
(* boards of the Elegoo kit, 64 bits elsewhere.  It matters in             *)
(* dy += 0.05, which adds in double and rounds back to float, so the       *)
(* variable doubleBits fixes the build and both are explored.  Positions   *)
(* are therefore NOT on an exact 1/20 grid: 0.05 and k/10 are not binary   *)
(* fractions and rounding error accumulates, which decides comparisons     *)
(* against the walls and ground.  Exponents stay far from the subnormal    *)
(* and overflow ranges in every reachable state.                           *)
(*                                                                         *)
(* Specifications.  Spec is the whole sketch with calls of loop() at any   *)
(* pace; SpecPasses is the whole sketch with every call executing a tick;  *)
(* SpecGate follows the gate of loop() over long pauses and the wrap of    *)
(* millis(); SpecBall is one Ball over every sampled construction;         *)
(* SpecFlight (SpecFlightFair with loop() called forever) is one Ball over *)
(* several bounces; SpecScenario is the Ball of the specification's example.*)
(***************************************************************************)
EXTENDS Integers, Sequences, FiniteSets

(***************************************************************************)
(* binary32 arithmetic                                                     *)
(***************************************************************************)
Abs(n) == IF n < 0 THEN -n ELSE n

Sign(n) == IF n < 0 THEN -1 ELSE IF n > 0 THEN 1 ELSE 0

Pow2(n) == 2 ^ n

RECURSIVE HighBit(_, _)
\* the largest j <= k with 2^j <= a, for 1 <= a < 2^(k+1)
HighBit(a, k) == IF a >= Pow2(k) THEN k ELSE HighBit(a, k - 1)

\* floor of the binary logarithm, for 1 <= a < 2^31
Log2(a) == HighBit(a, 30)

\* The float nearest to T * 2^E (ties to even), for |T| < 2^30.
Round(T, E) ==
  IF T = 0 THEN <<0, 0>>
  ELSE LET a == Abs(T)
           k == Log2(a) - 23
       IN IF k <= 0
          THEN <<Sign(T) * a * Pow2(-k), E + k>>
          ELSE LET p  == Pow2(k)
                   q  == a \div p
                   r  == a % p
                   up == r > p \div 2 \/ (r = p \div 2 /\ q % 2 = 1)
                   q2 == IF up THEN q + 1 ELSE q
               IN IF q2 = Pow2(24)
                  THEN <<Sign(T) * Pow2(23), E + k + 1>>
                  ELSE <<Sign(T) * q2, E + k>>

\* int -> float conversion (exact below 2^24)
FromInt(n) == Round(n, 0)

\* a + b in binary32: the smaller operand is aligned to three guard bits
\* below the larger one's last place, the lowest being the sticky bit.
FAdd(a, b) ==
  IF a[1] = 0 THEN b
  ELSE IF b[1] = 0 THEN a
  ELSE LET big   == IF a[2] >= b[2] THEN a ELSE b
           small == IF a[2] >= b[2] THEN b ELSE a
           d     == big[2] - small[2]
           sm    == Abs(small[1])
           mag   == IF d <= 3 THEN sm * Pow2(3 - d)
                    ELSE IF d >= 28 THEN 1
                    ELSE LET p == Pow2(d - 3)
                             q == sm \div p
                         IN IF sm % p # 0 /\ q % 2 = 0 THEN q + 1 ELSE q
       IN Round(big[1] * 8 + Sign(small[1]) * mag, big[2] - 3)

FNeg(a) == <<-a[1], a[2]>>

\* -1, 0, 1 as a < b, a = b, a > b (exact: both operands are normalised)
FCmp(a, b) ==
  IF Sign(a[1]) # Sign(b[1])
  THEN (IF Sign(a[1]) < Sign(b[1]) THEN -1 ELSE 1)
  ELSE IF a[1] = 0 THEN 0
  ELSE IF a[2] # b[2]
  THEN (IF a[2] < b[2] THEN -Sign(a[1]) ELSE Sign(a[1]))
  ELSE Sign(a[1] - b[1])

FLeq(a, b) == FCmp(a, b) <= 0

FGeq(a, b) == FCmp(a, b) >= 0

\* float -> int conversion: truncation toward zero
Trunc(a) ==
  IF a[2] >= 0 THEN a[1] * Pow2(a[2])
  ELSE IF a[2] <= -24 THEN 0
  ELSE Sign(a[1]) * (Abs(a[1]) \div Pow2(-a[2]))

\* n / 10.0 for an integer 16 <= |n| < 64: the correctly rounded quotient
\* (the same float whether the division is done in binary32 or in binary64)
Tenth(n) ==
  LET N == Abs(n) * Pow2(25)
      q == N \div 10
  IN Round(Sign(n) * (2 * q + (IF N % 10 # 0 THEN 1 ELSE 0)), -26)

\* the literal 0.05 rounded to binary32:
\* 13421773 * 2^-28 = 0.0500000007450580596923828125
GRAVITY == <<13421773, -28>>

(***************************************************************************)
(* binary64.  Where double is 64 bits wide (a build for a 32-bit board or  *)
(* for a host), dy += 0.05 is computed in double and then rounded to       *)
(* float.  0.05 as a double is (GRAVITY_HI * 2^30 + GRAVITY_LO) * 2^-57.   *)
(* Numbers below 2^61 are pairs <<high, low>> in units of 2^-57: low is a  *)
(* 30-bit limb and high, the rest, is below 2^31.                          *)
(***************************************************************************)
GRAVITY_HI == 6710886
GRAVITY_LO == 429496730

\* |a| in units of 2^-57, for a float a of exponent -57 .. -20
Limbs(a) ==
  LET s == a[2] + 57
      m == Abs(a[1])
  IN IF s >= 30 THEN <<m * Pow2(s - 30), 0>>
     ELSE <<m \div Pow2(30 - s), (m % Pow2(30 - s)) * Pow2(s)>>

LimbsLess(u, v) == u[1] < v[1] \/ (u[1] = v[1] /\ u[2] < v[2])

LimbsAdd(u, v) ==
  <<u[1] + v[1] + (u[2] + v[2]) \div Pow2(30), (u[2] + v[2]) % Pow2(30)>>

\* u - v, for u >= v
LimbsSub(u, v) ==
  IF u[2] >= v[2] THEN <<u[1] - v[1], u[2] - v[2]>>
  ELSE <<u[1] - v[1] - 1, u[2] - v[2] + Pow2(30)>>

\* index of the leading bit of u > 0
LimbsHighBit(u) == IF u[1] > 0 THEN 30 + Log2(u[1]) ELSE Log2(u[2])

\* u rounded to the 53 bits of a double (ties to even)
RoundDouble(u) ==
  LET k == LimbsHighBit(u) - 52
  IN IF k <= 0 THEN u
     ELSE LET p  == Pow2(k)
              r  == u[2] % p
              up == r > p \div 2 \/ (r = p \div 2 /\ (u[2] \div p) % 2 = 1)
              lo == u[2] - r + (IF up THEN p ELSE 0)
          IN IF lo = Pow2(30) THEN <<u[1] + 1, 0>> ELSE <<u[1], lo>>

\* sign * u * 2^-57 rounded to float: u is cut to 28 bits, the last one
\* being sticky, and then rounded
LimbsToFloat(sign, u) ==
  LET sh == LimbsHighBit(u) - 27
  IN IF sh <= 0 THEN Round(sign * u[2], -57)
     ELSE LET t == IF sh <= 30
                   THEN u[1] * Pow2(30 - sh) + u[2] \div Pow2(sh)
                   ELSE u[1] \div Pow2(sh - 30)
              exact == IF sh <= 30 THEN u[2] % Pow2(sh) = 0
                       ELSE u[1] % Pow2(sh - 30) = 0 /\ u[2] = 0
          IN Round(sign * (IF ~exact /\ t % 2 = 0 THEN t + 1 ELSE t), sh - 57)

\* (float) ((double) a + 0.05), for -16 < a < 15.9 (the sum is below 2^61
\* units of 2^-57)
DAddGravity(a) ==
  LET g == <<GRAVITY_HI, GRAVITY_LO>>
  IN IF a[1] >= 0 THEN LimbsToFloat(1, RoundDouble(LimbsAdd(Limbs(a), g)))
     ELSE IF LimbsLess(g, Limbs(a))
     THEN LimbsToFloat(-1, RoundDouble(LimbsSub(Limbs(a), g)))
     ELSE LimbsToFloat(1, RoundDouble(LimbsSub(g, Limbs(a))))

(***************************************************************************)
(* unsigned long (32 bits), kept as two 16-bit limbs <<high, low>>         *)
(***************************************************************************)
LIMB == 65536

\* a + d modulo 2^32, for 0 <= d < LIMB
ULAdd(a, d) == <<(a[1] + (a[2] + d) \div LIMB) % LIMB, (a[2] + d) % LIMB>>

\* a - b modulo 2^32
ULSub(a, b) ==
  <<(a[1] - b[1] - (IF a[2] < b[2] THEN 1 ELSE 0)) % LIMB, (a[2] - b[2]) % LIMB>>

\* a <= n for 0 <= n < LIMB
ULLeq(a, n) == a[1] = 0 /\ a[2] <= n

(***************************************************************************)
(* Bounds of the model                                                     *)
(***************************************************************************)
\* executed ticks explored by the one-ball specification
MaxBallTicks == 80
\* executed ticks explored by the whole-sketch specification
MaxTicks == 2
\* largest number of milliseconds between two calls of loop()
MaxDelta == 6
\* milliseconds between two calls of loop() in the one-ball specification
BallDelta == 6
\* spacing of the sampled values of random(20, 45) and random(-45, -20)
SpeedStride == 12
\* spacing of the sampled start positions
PosStride == 103
\* spacing of the sampled radii
RadiusStride == 5
\* number of sampled five-ball start configurations
Configs == 3
\* executed ticks explored by the specification of the gate
MaxGateTicks == 3
\* a long pause between two calls of loop(), in milliseconds
LongDelta == 23
\* executed ticks explored by the specification of the three passes
MaxPassTicks == 5
\* executed ticks explored by the specification of long flights
MaxFlightTicks == 250
\* ticks within which a flight is expected to meet the ground and a wall
Horizon == 160

\* random(lo, hi) returns a value of lo .. hi-1
Random(lo, hi) == lo .. (hi - 1)

\* the values of random(lo, hi) the model draws: both ends and every stride-th
Sample(lo, hi, stride) ==
  {v \in Random(lo, hi) : v = hi - 1 \/ (v - lo) % stride = 0}

(***************************************************************************)
(* Program constants                                                       *)
(***************************************************************************)
BLACK == 0
WHITE == 65535
BACKGROUND == BLACK
BALLCOUNT == 5
\* the step of the gate in loop(): ms - lastms <= 5 returns
STEP == 5
\* ILI9341 panel after setRotation(3): tft.width(), tft.height()
TFTWIDTH == 320
TFTHEIGHT == 240

(***************************************************************************)
(* State                                                                   *)
(***************************************************************************)
VARIABLES
  balls,      \* Ball *balls[]: sequence of records x, y, dx, dy (floats),
              \* ix, iy, ox, oy (ints), radius, color
  lastms,     \* unsigned long lastms
  clock,      \* the value millis() returned to the last call of loop()
  width,      \* tft.width()
  height,     \* tft.height()
  fills,      \* the fillRect calls issued by the last call of loop(), in order
  ticks,      \* number of calls of loop() that passed the gate
  doubleBits  \* width of double in the build: 32 (AVR) or 64

vars == <<balls, lastms, clock, width, height, fills, ticks, doubleBits>>

(***************************************************************************)
(* class Ball                                                              *)
(***************************************************************************)
\* Ball::Ball(): radius, color, position and speed are set from random();
\* ix, iy, ox, oy are not initialised and hold the indeterminate values g.
Ball(r, c, x0, y0, d1, d2, g) ==
  [radius |-> r, color |-> c,
   x |-> FromInt(x0), y |-> FromInt(y0),
   dx |-> Tenth(d1), dy |-> Tenth(d2),
   ix |-> g[1], iy |-> g[2], ox |-> g[3], oy |-> g[4]]

\* mutant of WallHit: the test of the right wall is missing
WallHitLeftOnly(b, w) == FLeq(FAdd(b.x, b.dx), FromInt(b.radius))

\* x+dx <= radius || x+dx >= tft.width() - radius
WallHit(b, w) ==
  LET sx == FAdd(b.x, b.dx)
  IN FLeq(sx, FromInt(b.radius)) \/ FGeq(sx, FromInt(w - b.radius))

\* mutant of GroundHit: the ground is tested at the edge of the surface,
\* without the radius
GroundHitLate(b, h) == FGeq(FAdd(b.y, b.dy), FromInt(h))

\* y+dy >= tft.height() - radius
GroundHit(b, h) == FGeq(FAdd(b.y, b.dy), FromInt(h - b.radius))

\* mutant of BounceDx: the signs of the conditional are swapped
BounceDxSwapped(b, r1) == IF b.dx[1] > 0 THEN Tenth(r1) ELSE FNeg(Tenth(r1))

\* random(20, 45) / 10.0 * ((dx > 0) ? -1 : 1), r1 being the value drawn
BounceDx(b, r1) == IF b.dx[1] > 0 THEN FNeg(Tenth(r1)) ELSE Tenth(r1)

\* mutant of AddGravity: no gravity, dy is left as it is
AddGravityNone(dy) == dy

\* mutant of AddGravity: dy += 0.5
AddGravityTenfold(dy) == FAdd(dy, Tenth(5))

\* dy += 0.05: a double addition, rounded to float by the assignment
AddGravity(dy) ==
  IF doubleBits = 64 THEN DAddGravity(dy) ELSE FAdd(dy, GRAVITY)

\* mutant of Move: a ground bounce also changes the radius
MoveResizing(b, w, h, r1, r2) ==
  LET ndx == IF WallHit(b, w) THEN BounceDx(b, r1) ELSE b.dx
      ndy == IF GroundHit(b, h) THEN Tenth(r2) ELSE AddGravity(b.dy)
      nx  == FAdd(b.x, ndx)
      ny  == FAdd(b.y, ndy)
  IN [b EXCEPT !.ox = b.ix, !.oy = b.iy,
               !.dx = ndx, !.dy = ndy,
               !.x = nx, !.y = ny,
               !.ix = Trunc(nx), !.iy = Trunc(ny),
               !.radius = IF GroundHit(b, h) THEN b.radius + 1 ELSE b.radius]

\* Ball::move() with r1 = random(20, 45) and r2 = random(-45, -20); a value
\* is only drawn, and only used, in the branch that calls random().
Move(b, w, h, r1, r2) ==
  LET ndx == IF WallHit(b, w) THEN BounceDx(b, r1) ELSE b.dx
      ndy == IF GroundHit(b, h) THEN Tenth(r2) ELSE AddGravity(b.dy)
      nx  == FAdd(b.x, ndx)
      ny  == FAdd(b.y, ndy)
  IN [b EXCEPT !.ox = b.ix, !.oy = b.iy,
               !.dx = ndx, !.dy = ndy,
               !.x = nx, !.y = ny,
               !.ix = Trunc(nx), !.iy = Trunc(ny)]

\* tft.fillRect(x, y, w, h, color), tagged with the pass and strip issuing it
FillRect(op, x, y, w, h, c) ==
  [op |-> op, x |-> x, y |-> y, w |-> w, h |-> h, color |-> c]

\* mutant of HorizontalStrip: the strip is put on the edge the body moves to
HorizontalStripLeading(b) ==
  LET mx == b.ix - b.ox
  IN IF mx > 0
     THEN <<FillRect("eraseH", b.ox + b.radius, b.oy - b.radius,
                     mx, b.radius * 2, BACKGROUND)>>
     ELSE IF mx < 0
     THEN <<FillRect("eraseH", b.ox - b.radius + mx, b.oy - b.radius,
                     -mx, b.radius * 2, BACKGROUND)>>
     ELSE <<>>

\* Ball::erase(), "erase horizontal gap"
HorizontalStrip(b) ==
  LET mx == b.ix - b.ox
  IN IF mx > 0
     THEN <<FillRect("eraseH", b.ox - b.radius, b.oy - b.radius,
                     mx, b.radius * 2, BACKGROUND)>>
     ELSE IF mx < 0
     THEN <<FillRect("eraseH", b.ox + b.radius + mx, b.oy - b.radius,
                     -mx, b.radius * 2, BACKGROUND)>>
     ELSE <<>>

\* mutant of VerticalStrip: the strip leaves out the columns that the
\* horizontal strip has cleared
VerticalStripBeside(b) ==
  LET mx == b.ix - b.ox
      my == b.iy - b.oy
      left == b.ox - b.radius + (IF mx > 0 THEN mx ELSE 0)
  IN IF my > 0
     THEN <<FillRect("eraseV", left, b.oy - b.radius,
                     b.radius * 2 - Abs(mx), my, BACKGROUND)>>
     ELSE IF my < 0
     THEN <<FillRect("eraseV", left, b.oy + b.radius + my,
                     b.radius * 2 - Abs(mx), -my, BACKGROUND)>>
     ELSE <<>>

\* mutant of VerticalStrip: the first test reads my >= 0, so that an empty
\* strip is issued for a body that did not move vertically
VerticalStripAlways(b) ==
  LET my == b.iy - b.oy
  IN IF my >= 0
     THEN <<FillRect("eraseV", b.ox - b.radius, b.oy - b.radius,
                     b.radius * 2, my, BACKGROUND)>>
     ELSE <<FillRect("eraseV", b.ox - b.radius, b.oy + b.radius + my,
                     b.radius * 2, -my, BACKGROUND)>>

\* Ball::erase(), "erase vertical gap"
VerticalStrip(b) ==
  LET my == b.iy - b.oy
  IN IF my > 0
     THEN <<FillRect("eraseV", b.ox - b.radius, b.oy - b.radius,
                     b.radius * 2, my, BACKGROUND)>>
     ELSE IF my < 0
     THEN <<FillRect("eraseV", b.ox - b.radius, b.oy + b.radius + my,
                     b.radius * 2, -my, BACKGROUND)>>
     ELSE <<>>

\* Ball::erase(): the fillRect calls it issues, in order
Erase(b) == HorizontalStrip(b) \o VerticalStrip(b)

\* Ball::draw()
Draw(b) ==
  <<FillRect("draw", b.ix - b.radius, b.iy - b.radius,
             b.radius * 2, b.radius * 2, b.color)>>

(***************************************************************************)
(* loop()                                                                  *)
(***************************************************************************)
\* mutant of Gated: the gate closes two milliseconds early
GatedEarly(ms, last) == ULLeq(ULSub(ms, last), STEP - 2)

\* mutant of Gated: ms <= lastms + 5, which compares the wrapped numbers
GatedAbsolute(ms, last) ==
  LET lim == ULAdd(last, STEP)
  IN ms[1] < lim[1] \/ (ms[1] = lim[1] /\ ms[2] <= lim[2])

\* ms - lastms <= 5: the call returns without doing anything
Gated(ms, last) == ULLeq(ULSub(ms, last), STEP)

\* the results Ball::move() can have on ball b, one per value random() can
\* return in the branches that call it
MoveOutcomes(b, w, h) ==
  {Move(b, w, h, r1, r2) :
     r1 \in (IF WallHit(b, w) THEN Sample(20, 45, SpeedStride) ELSE {20}),
     r2 \in (IF GroundHit(b, h) THEN Sample(-45, -20, SpeedStride) ELSE {-45})}

RECURSIVE MoveAll(_, _, _)
\* for (Ball *b : balls) b->move();
MoveAll(bs, w, h) ==
  IF bs = <<>> THEN {<<>>}
  ELSE {<<m>> \o rest : m \in MoveOutcomes(Head(bs), w, h),
                        rest \in MoveAll(Tail(bs), w, h)}

\* the calls of one ball, as the surface receives them: with the issuing ball
Issued(i, calls) ==
  [k \in 1 .. Len(calls) |->
     [ball |-> i, op |-> calls[k].op, x |-> calls[k].x, y |-> calls[k].y,
      w |-> calls[k].w, h |-> calls[k].h, color |-> calls[k].color]]

RECURSIVE EraseAll(_, _)
\* for (Ball *b : balls) b->erase();   (balls i, i+1, ...)
EraseAll(bs, i) ==
  IF i > Len(bs) THEN <<>> ELSE Issued(i, Erase(bs[i])) \o EraseAll(bs, i + 1)

RECURSIVE DrawAllReversed(_, _)
\* mutant of DrawAll: the draw pass visits the balls in the reverse order
DrawAllReversed(bs, i) ==
  IF i > Len(bs) THEN <<>>
  ELSE DrawAllReversed(bs, i + 1) \o Issued(i, Draw(bs[i]))

RECURSIVE DrawAll(_, _)
\* for (Ball *b : balls) b->draw();
DrawAll(bs, i) ==
  IF i > Len(bs) THEN <<>> ELSE Issued(i, Draw(bs[i])) \o DrawAll(bs, i + 1)

RECURSIVE EraseDrawEach(_, _)
\* erase() and draw() of one ball after the other, ball by ball
EraseDrawEach(bs, i) ==
  IF i > Len(bs) THEN <<>>
  ELSE Issued(i, Erase(bs[i])) \o Issued(i, Draw(bs[i]))
         \o EraseDrawEach(bs, i + 1)

\* mutant of Loop: the erase pass and the draw pass are merged into one
LoopInterleaved(d) ==
  LET ms == ULAdd(clock, d)
  IN /\ clock' = ms
     /\ UNCHANGED <<width, height, doubleBits>>
     /\ IF Gated(ms, lastms)
        THEN /\ fills' = <<>>
             /\ UNCHANGED <<balls, lastms, ticks>>
        ELSE /\ lastms' = ms
             /\ ticks' = ticks + 1
             /\ \E nb \in MoveAll(balls, width, height) :
                  /\ balls' = nb
                  /\ fills' = EraseDrawEach(nb, 1)

\* mutant of Loop: an executed tick advances lastms by one step only, so
\* that the time beyond it is caught up by the next calls
LoopCatchUp(d) ==
  LET ms == ULAdd(clock, d)
  IN /\ clock' = ms
     /\ UNCHANGED <<width, height, doubleBits>>
     /\ IF Gated(ms, lastms)
        THEN /\ fills' = <<>>
             /\ UNCHANGED <<balls, lastms, ticks>>
        ELSE /\ lastms' = ULAdd(lastms, STEP)
             /\ ticks' = ticks + 1
             /\ \E nb \in MoveAll(balls, width, height) :
                  /\ balls' = nb
                  /\ fills' = EraseAll(nb, 1) \o DrawAll(nb, 1)

\* One call of loop(), d milliseconds after the previous one.
Loop(d) ==
  LET ms == ULAdd(clock, d)
  IN /\ clock' = ms
     /\ UNCHANGED <<width, height, doubleBits>>
     /\ IF Gated(ms, lastms)
        THEN /\ fills' = <<>>
             /\ UNCHANGED <<balls, lastms, ticks>>
        ELSE /\ lastms' = ms
             /\ ticks' = ticks + 1
             /\ \E nb \in MoveAll(balls, width, height) :
                  /\ balls' = nb
                  /\ fills' = EraseAll(nb, 1) \o DrawAll(nb, 1)

(***************************************************************************)
(* setup()                                                                 *)
(***************************************************************************)
\* sampled values of the uninitialised ints ix, iy, ox, oy of a new Ball
Indeterminate == {0, 8}

\* millis() at the end of setup()
BootTime == <<0, 500>>

\* sampled value of random(BLACK, WHITE) for a single body
Colors == {WHITE - 1}

\* what setup() leaves apart from the balls
Started(w, h) ==
  /\ lastms = BootTime
  /\ clock = BootTime
  /\ width = w
  /\ height = h
  /\ fills = <<>>
  /\ ticks = 0
  /\ doubleBits \in {32, 64}

\* ball i of the sampled start configuration v: the boxes start on a
\* diagonal towards the lower right corner, neighbours overlapping, so that
\* a wall, the ground and other boxes are met within few ticks
ConfigBall(i, v, g) ==
  LET r == 6 + ((i + v) % 6)
  IN Ball(r, (13107 * i + v) % WHITE,
          (TFTWIDTH - r - 1) - 13 * (i - 1) - v,
          (TFTHEIGHT - r - 1) - 11 * (BALLCOUNT - i) - v,
          20 + ((11 * i + 7 * v) % 25),
          20 + ((5 * i + 13 * v) % 25),
          <<g, g, g, g>>)

\* setup(): the surface is 320 x 240 and BALLCOUNT balls are constructed
Init ==
  /\ \E v \in 0 .. (Configs - 1), g \in Indeterminate :
       balls = [i \in 1 .. BALLCOUNT |-> ConfigBall(i, v, g)]
  /\ Started(TFTWIDTH, TFTHEIGHT)

Next == ticks < MaxTicks /\ \E d \in 0 .. MaxDelta : Loop(d)

Spec == Init /\ [][Next]_vars

\* The whole sketch with every call of loop() coming late enough to execute
\* a tick: the three passes over the BALLCOUNT balls, tick after tick.
NextPasses == ticks < MaxPassTicks /\ Loop(BallDelta)

SpecPasses == Init /\ [][NextPasses]_vars

\* One Ball on the surface of setup(), every attribute drawn from the
\* sampled range of its random() call.
InitBall ==
  /\ \E r \in Sample(6, 12, RadiusStride), c \in Colors,
        d1 \in Sample(20, 45, SpeedStride), d2 \in Sample(20, 45, SpeedStride),
        g \in Indeterminate \X Indeterminate \X Indeterminate \X Indeterminate :
       \E x0 \in Sample(r, TFTWIDTH - r, PosStride),
          y0 \in Sample(r, TFTHEIGHT - r, PosStride) :
         balls = <<Ball(r, c, x0, y0, d1, d2, g)>>
  /\ Started(TFTWIDTH, TFTHEIGHT)

NextBall == ticks < MaxBallTicks /\ Loop(BallDelta)

SpecBall == InitBall /\ [][NextBall]_vars

\* the values the uninitialised ints of the scenario's Ball are sampled
\* from: an uninitialised int may hold any value, and the sample adds 50,
\* with which the new Ball has the cell (50, 50) of its position
ScenarioIndeterminate == Indeterminate \cup {50}

\* The end-to-end scenario of the specification, as the sketch produces it:
\* Ball::Ball() with random() returning radius 10, position (50, 50) and
\* speed (3.0, 3.0), on the surface of setup().  As for every new Ball, the
\* constructor leaves ix, iy, ox, oy indeterminate.
InitScenario ==
  /\ \E c \in Colors,
        g \in ScenarioIndeterminate \X ScenarioIndeterminate
                \X ScenarioIndeterminate \X ScenarioIndeterminate :
       balls = <<Ball(10, c, 50, 50, 30, 30, g)>>
  /\ Started(TFTWIDTH, TFTHEIGHT)

SpecScenario == InitScenario /\ [][NextBall]_vars

\* millis() six milliseconds before the 32-bit counter wraps to zero
LateTime == <<LIMB - 1, LIMB - 6>>

\* The gate of loop() with one ball, calls of loop() coming after short and
\* long pauses.  The run starts at the end of setup() or, since the gate
\* reads nothing but lastms and millis(), where the counter is about to
\* wrap (49.7 days later) with lastms just set by an executed tick.
InitGate ==
  /\ \E c \in Colors, g \in Indeterminate :
       balls = <<Ball(10, c, 50, 50, 30, 30, <<g, g, g, g>>)>>
  /\ \E t \in {BootTime, LateTime} : lastms = t /\ clock = t
  /\ width = TFTWIDTH
  /\ height = TFTHEIGHT
  /\ fills = <<>>
  /\ ticks = 0
  /\ doubleBits \in {32, 64}

NextGate ==
  ticks < MaxGateTicks /\ \E d \in (0 .. MaxDelta) \cup {LongDelta} : Loop(d)

SpecGate == InitGate /\ [][NextGate]_vars

\* the balls whose long flights are followed, as <<radius, x, y, random()
\* of dx, random() of dy>>: the smallest ball in the upper left corner at
\* the highest speed, and the largest next to the right wall and the ground
FlightStarts ==
  {<<6, 6, 6, 44, 44>>,
   <<11, TFTWIDTH - 11 - 1, TFTHEIGHT - 11 - 1, 20, 20>>}

\* One Ball on the surface of setup(), followed over several bounces.
InitFlight ==
  /\ \E f \in FlightStarts, c \in Colors, g \in Indeterminate :
       balls = <<Ball(f[1], c, f[2], f[3], f[4], f[5], <<g, g, g, g>>)>>
  /\ Started(TFTWIDTH, TFTHEIGHT)

NextFlight == ticks < MaxFlightTicks /\ Loop(BallDelta)

SpecFlight == InitFlight /\ [][NextFlight]_vars

\* a call of loop() executes a tick: the steps of NextFlight are exactly
\* the steps that count a tick, every call coming after more than the step
TickExecuted == ticks < MaxFlightTicks /\ ticks' = ticks + 1

\* the Arduino core calls loop() again and again, forever
SpecFlightFair == SpecFlight /\ WF_ticks(TickExecuted)

(***************************************************************************)
(* Properties                                                              *)
(***************************************************************************)
Bodies == 1 .. Len(balls)

\* C1: in every reachable state, every body's position.x lies within
\* [radius, surfaceWidth - radius].
HorizontalContainment ==
  \A i \in Bodies :
    /\ FLeq(FromInt(balls[i].radius), balls[i].x)
    /\ FLeq(balls[i].x, FromInt(width - balls[i].radius))

\* C2 as claimed: in every reachable state, every body's position.y is at most
\* surfaceHeight - radius.
GroundBound ==
  \A i \in Bodies : FLeq(balls[i].y, FromInt(height - balls[i].radius))

(***************************************************************************)
(* What the surface received in the last call of loop()                    *)
(***************************************************************************)
\* the last call of loop() passed the gate: every ball was drawn
Executed == fills # <<>>

IsErase(f) == f.op \in {"eraseH", "eraseV"}

\* the fillRect calls of erase() / draw() of ball i in the last call of loop()
ErasesOf(i) == SelectSeq(fills, LAMBDA f : f.ball = i /\ IsErase(f))

DrawsOf(i) == SelectSeq(fills, LAMBDA f : f.ball = i /\ f.op = "draw")

\* the pixels of a rectangle as issued (before the surface clips it)
Pixels(f) == (f.x .. (f.x + f.w - 1)) \X (f.y .. (f.y + f.h - 1))

Filled(calls) == UNION {Pixels(calls[k]) : k \in 1 .. Len(calls)}

\* the box of a body at cell (cx, cy): [cx - r, cx + r) x [cy - r, cy + r)
Box(cx, cy, r) == ((cx - r) .. (cx + r - 1)) \X ((cy - r) .. (cy + r - 1))

Min(a, b) == IF a <= b THEN a ELSE b

\* C1 (witness): a body has just bounced off the right wall
RightBounced ==
  \E i \in Bodies :
    /\ ticks >= 1
    /\ balls[i].dx[1] < 0
    /\ FGeq(balls[i].x, FromInt(width - balls[i].radius - 5))

\* C3 as claimed: a body whose cell moved on both axes gets exactly two
\* erase rectangles, which share no pixel; no body ever gets more than two.
DisjointEraseRectangles ==
  Executed =>
    \A i \in Bodies :
      LET e == ErasesOf(i)
      IN /\ Len(e) <= 2
         /\ (balls[i].ix # balls[i].ox /\ balls[i].iy # balls[i].oy) =>
              (Len(e) = 2 /\ Pixels(e[1]) \cap Pixels(e[2]) = {})

\* C3 as amended: a body whose cell moved by (mx, my), both non-zero, gets
\* exactly two erase rectangles, and they overlap in the corner of the old
\* box: min(|mx|, 2 radius) * min(|my|, 2 radius) pixels; never more than two.
OverlappingEraseRectangles ==
  Executed =>
    \A i \in Bodies :
      LET e  == ErasesOf(i)
          mx == balls[i].ix - balls[i].ox
          my == balls[i].iy - balls[i].oy
          d  == 2 * balls[i].radius
      IN /\ Len(e) <= 2
         /\ (mx # 0 /\ my # 0) =>
              /\ Len(e) = 2
              /\ Cardinality(Pixels(e[1]) \cap Pixels(e[2]))
                   = Min(Abs(mx), d) * Min(Abs(my), d)

\* C3 (witness): after a tick other than the first, a cell moved on both axes
MovedDiagonally ==
  /\ Executed
  /\ ticks >= 2
  /\ \E i \in Bodies :
       balls[i].ix # balls[i].ox /\ balls[i].iy # balls[i].oy

\* C4 as claimed: erase() fills exactly (old box) \ (new box) and draw()
\* exactly the new box.
EraseDrawCoverage ==
  Executed =>
    \A i \in Bodies :
      LET old == Box(balls[i].ox, balls[i].oy, balls[i].radius)
          new == Box(balls[i].ix, balls[i].iy, balls[i].radius)
      IN /\ Filled(ErasesOf(i)) = old \ new
         /\ Filled(DrawsOf(i)) = new

\* C4, from the second tick on (previousCell is then a cell the body held)
EraseDrawCoverageLater == ticks >= 2 => EraseDrawCoverage

\* C5 as claimed: before any advance(), previousCell = currentCell = the
\* truncation of the constructed position.
FirstTickStability ==
  ticks = 0 =>
    \A i \in Bodies :
      /\ balls[i].ix = Trunc(balls[i].x)
      /\ balls[i].iy = Trunc(balls[i].y)
      /\ balls[i].ox = balls[i].ix
      /\ balls[i].oy = balls[i].iy

\* the gate sees fewer than n elapsed milliseconds in the call being made
ElapsedBelow(n) == ULLeq(ULSub(clock', lastms), n - 1)

\* C6: a call of loop() less than the step after the last executed tick
\* changes neither lastms nor any body and issues no fillRect.
RateGating ==
  [][ElapsedBelow(STEP) =>
       /\ lastms' = lastms
       /\ balls' = balls
       /\ fills' = <<>>]_vars

\* C6 (witness): a call 1 to 4 ms after an executed tick has returned
GatedCallMade ==
  /\ ticks >= 1
  /\ clock # lastms
  /\ ULLeq(ULSub(clock, lastms), STEP - 1)
  /\ fills = <<>>

\* C7 as claimed: a call is a no-op exactly when fewer than 5 ms elapsed;
\* from 5 ms on it sets lastms to the time read and runs the passes.
StepThreshold ==
  [][/\ ElapsedBelow(STEP) => (lastms' = lastms /\ balls' = balls)
     /\ ~ElapsedBelow(STEP) =>
          (lastms' = clock' /\ ticks' = ticks + 1 /\ fills' # <<>>)]_vars

\* C8: in an advance(), a wall test that fires with dx > 0 at the right
\* bound leaves dx < 0, one that fires with dx < 0 at the left bound leaves
\* dx > 0, and dx is unchanged when neither test fires.
BounceReversal ==
  [][ticks' = ticks + 1 =>
       \A i \in Bodies :
         LET b  == balls[i]
             sx == FAdd(b.x, b.dx)
             right == FGeq(sx, FromInt(width - b.radius))
             left  == FLeq(sx, FromInt(b.radius))
         IN /\ (b.dx[1] > 0 /\ right) => balls'[i].dx[1] < 0
            /\ (b.dx[1] < 0 /\ left) => balls'[i].dx[1] > 0
            /\ (~right /\ ~left) => balls'[i].dx = b.dx]_vars

\* C8 (witness): a body has bounced off the left wall
LeftBounced ==
  \E i \in Bodies :
    /\ ticks >= 10
    /\ balls[i].dx[1] > 0
    /\ FLeq(balls[i].x, FromInt(balls[i].radius + 9))

\* C9: erase() fills no horizontal strip when mx = 0 and no vertical strip
\* when my = 0, hence nothing at all when mx = my = 0.
NoOpErase ==
  Executed =>
    \A i \in Bodies :
      \A k \in 1 .. Len(fills) :
        fills[k].ball = i =>
          /\ balls[i].ix = balls[i].ox => fills[k].op # "eraseH"
          /\ balls[i].iy = balls[i].oy => fills[k].op # "eraseV"

\* C9 (witness): a tick was executed in which a body's cell did not change
CellUnchanged ==
  /\ Executed
  /\ \E i \in Bodies :
       /\ balls[i].ix = balls[i].ox
       /\ balls[i].iy = balls[i].oy
       /\ ErasesOf(i) = <<>>

\* the calls the surface received for one body: two strips and the box
ScenarioFills(hx, c) ==
  <<[ball |-> 1, op |-> "eraseH", x |-> hx, y |-> 40, w |-> 3, h |-> 20,
     color |-> BACKGROUND],
    [ball |-> 1, op |-> "eraseV", x |-> 40, y |-> 40, w |-> 20, h |-> 3,
     color |-> BACKGROUND],
    [ball |-> 1, op |-> "draw", x |-> 43, y |-> 43, w |-> 20, h |-> 20,
     color |-> c]>>

ScenarioCells ==
  /\ balls[1].ix = 53 /\ balls[1].iy = 53
  /\ balls[1].ox = 50 /\ balls[1].oy = 50

\* the first tick was executed on a body whose cell was (50, 50) before
\* the advance(): move() has copied that cell into ox, oy
ScenarioPremise ==
  ticks = 1 /\ Executed /\ balls[1].ox = 50 /\ balls[1].oy = 50

\* C10 as claimed: a body with radius 10, position (50, 50), speed (3, 3)
\* and cell (50, 50) has, after one advance(), the cells (53, 53) and
\* (50, 50); the erase pass clears a 3 x 20 strip covering x in [60, 63) and
\* a 20 x 3 strip, and the render pass fills [43, 63) x [43, 63).
ScenarioLeadingStrip ==
  ScenarioPremise =>
    (ScenarioCells /\ fills = ScenarioFills(60, balls[1].color))

\* C10 as amended: for the same body, the cells are (53, 53) and (50, 50);
\* the 3 x 20 strip covers x in [40, 43), y in [40, 60), the edge of the old
\* box the body moved away from; the 20 x 3 strip covers x in [40, 60),
\* y in [40, 43); the render pass fills [43, 63) x [43, 63).
ScenarioTrailingStrip ==
  ScenarioPremise =>
    (ScenarioCells /\ fills = ScenarioFills(40, balls[1].color))

\* C10 (witness): the first tick of the scenario was executed on the body
\* of radius 10 with cell (50, 50), and its erase() has issued two strips
ScenarioTickExecuted ==
  /\ ScenarioPremise
  /\ balls[1].radius = 10
  /\ Len(ErasesOf(1)) = 2

\* C10, for whatever the constructor left in ix, iy: the first tick gives
\* the cell (53, 53), the previous cell is the cell the constructor left,
\* erase() works from it, and draw() fills [43, 63) x [43, 63).
ScenarioFirstTick ==
  (ticks = 1 /\ Executed) =>
    /\ balls[1].ix = 53 /\ balls[1].iy = 53
    /\ balls[1].ox \in ScenarioIndeterminate
    /\ balls[1].oy \in ScenarioIndeterminate
    /\ ErasesOf(1) =
         <<[ball |-> 1, op |-> "eraseH", x |-> balls[1].ox - 10,
            y |-> balls[1].oy - 10, w |-> 53 - balls[1].ox, h |-> 20,
            color |-> BACKGROUND],
           [ball |-> 1, op |-> "eraseV", x |-> balls[1].ox - 10,
            y |-> balls[1].oy - 10, w |-> 20, h |-> 53 - balls[1].oy,
            color |-> BACKGROUND]>>
    /\ Pixels(DrawsOf(1)[1]) = (43 .. 62) \X (43 .. 62)

\* C10, one tick later (the previous cell is then the cell (53, 53) the
\* body held): the cell is (56, 56), the erase pass clears the 3 x 20 strip
\* x in [43, 46), y in [43, 63) and the 20 x 3 strip x in [43, 63),
\* y in [43, 46), the edges of the old box the body moved away from, and
\* the render pass fills [46, 66) x [46, 66).
ScenarioSecondTick ==
  (ticks = 2 /\ Executed) =>
    /\ balls[1].ix = 56 /\ balls[1].iy = 56
    /\ balls[1].ox = 53 /\ balls[1].oy = 53
    /\ fills =
         <<[ball |-> 1, op |-> "eraseH", x |-> 43, y |-> 43, w |-> 3,
            h |-> 20, color |-> BACKGROUND],
           [ball |-> 1, op |-> "eraseV", x |-> 43, y |-> 43, w |-> 20,
            h |-> 3, color |-> BACKGROUND],
           [ball |-> 1, op |-> "draw", x |-> 46, y |-> 46, w |-> 20,
            h |-> 20, color |-> balls[1].color]>>

\* C11: radius and color of every body never change; a call of loop() that
\* executes a tick leaves every body in a state its own move() produces from
\* its own previous state (erase() and draw() change no field, and no body
\* is changed by another body's move()); a gated call changes no body.
ImmutableAttributes ==
  [][/\ Len(balls') = Len(balls)
     /\ \A i \in Bodies :
          /\ balls'[i].radius = balls[i].radius
          /\ balls'[i].color = balls[i].color
     /\ ticks' = ticks + 1 =>
          \A i \in Bodies : balls'[i] \in MoveOutcomes(balls[i], width, height)
     /\ ticks' = ticks => balls' = balls]_vars

\* C11 (witness): two ticks were executed and a body bounced off the ground
BodiesMutated ==
  /\ ticks >= 2
  /\ Len(balls) = BALLCOUNT
  /\ \E i \in Bodies : balls[i].dy[1] < 0

\* C12: in every executed tick the surface receives first the erase calls of
\* all bodies and then the draw calls of all bodies; within each pass the
\* bodies come in the order of the collection, every body is drawn exactly
\* once, and the calls of a body are those of erase() and draw() on the
\* state its move() left (every move() precedes the first erase()).
ThreePassOrder ==
  Executed =>
    /\ \A k, l \in 1 .. Len(fills) :
         k < l =>
           /\ fills[k].op = "draw" => fills[l].op = "draw"
           /\ IsErase(fills[k]) = IsErase(fills[l]) =>
                fills[k].ball <= fills[l].ball
    /\ \A i \in Bodies :
         /\ Len(DrawsOf(i)) = 1
         /\ ErasesOf(i) = Issued(i, Erase(balls[i]))
         /\ DrawsOf(i) = Issued(i, Draw(balls[i]))

\* C12 (witness): in an executed tick two different bodies were erased and
\* two were drawn
TwoBodiesErased ==
  /\ Executed
  /\ \E i, j \in Bodies :
       /\ i < j
       /\ ErasesOf(i) # <<>> /\ ErasesOf(j) # <<>>
       /\ DrawsOf(i) # <<>> /\ DrawsOf(j) # <<>>

(***************************************************************************)
(* The picture on the surface                                              *)
(***************************************************************************)
\* pixel (px, py) lies in the box of radius r at cell (cx, cy)
InBox(px, py, cx, cy, r) ==
  /\ cx - r <= px /\ px < cx + r
  /\ cy - r <= py /\ py < cy + r

\* pixel (px, py) lies in the rectangle of the fillRect call f
Covers(f, px, py) ==
  /\ f.x <= px /\ px < f.x + f.w
  /\ f.y <= py /\ py < f.y + f.h

Top(S) == CHOOSE m \in S : \A k \in S : k <= m

\* the cells of the bodies before / after the last executed tick
OldCells == [i \in Bodies |-> <<balls[i].ox, balls[i].oy>>]
NewCells == [i \in Bodies |-> <<balls[i].ix, balls[i].iy>>]

\* a full redraw: the surface cleared, then every body's box drawn in the
\* order of the collection
FullRedraw(cells, px, py) ==
  LET S == {i \in Bodies :
              InBox(px, py, cells[i][1], cells[i][2], balls[i].radius)}
  IN IF S = {} THEN BACKGROUND ELSE balls[Top(S)].color

\* the surface before the last executed tick: cleared by setup() before the
\* first tick, and the full redraw of the previous cells before a later one
SurfaceBefore(px, py) ==
  IF ticks = 1 THEN BACKGROUND ELSE FullRedraw(OldCells, px, py)

\* the surface after the fillRect calls of the last executed tick
SurfaceAfter(px, py) ==
  LET S == {k \in 1 .. Len(fills) : Covers(fills[k], px, py)}
  IN IF S = {} THEN SurfaceBefore(px, py) ELSE fills[Top(S)].color

\* the pixels of the surface that a body covered before or covers after
\* the tick
Touched ==
  {p \in UNION {Box(NewCells[i][1], NewCells[i][2], balls[i].radius)
                  \cup (IF ticks = 1 THEN {}
                        ELSE Box(OldCells[i][1], OldCells[i][2],
                                 balls[i].radius)) : i \in Bodies} :
     /\ 0 <= p[1] /\ p[1] < width
     /\ 0 <= p[2] /\ p[2] < height}

\* C13: the fillRect calls of an executed tick turn the full redraw of the
\* previous cells (the cleared surface, for the first tick) into the full
\* redraw of the current cells: every pixel outside all current boxes is
\* BACKGROUND, every pixel inside one holds the color of the last body
\* covering it.  Outside all old and new boxes the surface is BACKGROUND
\* before the tick and receives nothing but BACKGROUND.
IncrementalRedraw ==
  Executed =>
    /\ \A k \in 1 .. Len(fills) :
         IsErase(fills[k]) => fills[k].color = BACKGROUND
    /\ \A k \in 1 .. Len(fills) :
         fills[k].op = "draw" =>
           Pixels(fills[k]) = Box(balls[fills[k].ball].ix,
                                  balls[fills[k].ball].iy,
                                  balls[fills[k].ball].radius)
    /\ \A p \in Touched :
         SurfaceAfter(p[1], p[2]) = FullRedraw(NewCells, p[1], p[2])

\* C13 (witness): after a tick other than the first, the boxes of two bodies
\* of different colors overlap, and the later body's erase() has cleared a
\* pixel of the earlier body's box
OverlapRedrawn ==
  /\ Executed
  /\ ticks >= 2
  /\ \E i, j \in Bodies :
       /\ i < j
       /\ balls[i].color # balls[j].color
       /\ Box(balls[i].ix, balls[i].iy, balls[i].radius)
            \cap Box(balls[j].ix, balls[j].iy, balls[j].radius) # {}
       /\ Box(balls[i].ix, balls[i].iy, balls[i].radius)
            \cap Filled(ErasesOf(j)) # {}

\* what C14 says of one advance(): the new cell is the truncated new
\* position, and the new previous cell is the old cell, which is the
\* truncation of the position held before
CellsFollow ==
  \A i \in Bodies :
    /\ balls'[i].ix = Trunc(balls'[i].x)
    /\ balls'[i].iy = Trunc(balls'[i].y)
    /\ balls'[i].ox = balls[i].ix
    /\ balls'[i].oy = balls[i].iy
    /\ balls'[i].ox = Trunc(balls[i].x)
    /\ balls'[i].oy = Trunc(balls[i].y)

\* C14 as claimed: after every advance(), the first one included,
\* currentCell is the truncation of the updated position and previousCell
\* is the previous currentCell, the truncation of the position held before.
CellHistory == [][ticks' = ticks + 1 => CellsFollow]_vars

\* C14, for every advance() but the first one of a body
CellHistoryLater == [][(ticks >= 1 /\ ticks' = ticks + 1) => CellsFollow]_vars

\* C15: a call of loop() executes at most one tick, in which every body is
\* advanced by one move(), however long ago the last tick was; an executed
\* tick sets lastms to the time read, so that the time beyond one step is
\* dropped; a call that executes no tick changes no body.
NoCatchUp ==
  [][/\ ticks' \in {ticks, ticks + 1}
     /\ ticks' = ticks + 1 =>
          /\ lastms' = clock'
          /\ \A i \in Bodies :
               balls'[i] \in MoveOutcomes(balls[i], width, height)
     /\ ticks' = ticks => balls' = balls]_vars

\* C15 (witness): the first tick was executed by a call that came three
\* steps or more after setup()
LongPauseExecuted ==
  /\ ticks = 1
  /\ Executed
  /\ lastms = clock
  /\ \E t \in {BootTime, LateTime} :
       LET e == ULSub(clock, t)
       IN e[1] = 0 /\ e[2] >= 3 * STEP /\ e[2] <= 2 * LongDelta

\* the time as a number that does not wrap, counted from 2^32 - 2^16, for
\* the times next to the wrap and after it
TrueTime(t) == IF t[1] = LIMB - 1 THEN t[2] ELSE LIMB + t[2]

\* C18: a call of loop() executes a tick when the time truly elapsed since
\* lastms exceeds the gate and is skipped when it does not, also when
\* millis() has wrapped past zero and is smaller than lastms.
WrapGate ==
  [][LET elapsed == TrueTime(clock') - TrueTime(lastms)
     IN /\ elapsed > STEP => (ticks' = ticks + 1 /\ lastms' = clock')
        /\ elapsed <= STEP =>
             (ticks' = ticks /\ lastms' = lastms /\ balls' = balls)]_vars

\* C18 (witness): the first tick was executed after the counter wrapped,
\* with millis() smaller than the lastms it was compared with
WrappedTick ==
  /\ ticks = 1
  /\ Executed
  /\ lastms[1] = 0
  /\ lastms[2] < LongDelta

\* C16: on the 320 x 240 surface of setup(), after every advance() the box
\* [currentCell - radius, currentCell + radius) of every body lies inside
\* the surface on both axes (the top edge included, which nothing tests),
\* and so does the rectangle draw() issues.
BoxInsideSurface ==
  ticks >= 1 =>
    \A i \in Bodies :
      /\ 0 <= balls[i].ix - balls[i].radius
      /\ balls[i].ix + balls[i].radius <= width
      /\ 0 <= balls[i].iy - balls[i].radius
      /\ balls[i].iy + balls[i].radius <= height
      /\ \A p \in Filled(DrawsOf(i)) :
           0 <= p[1] /\ p[1] < width /\ 0 <= p[2] /\ p[2] < height

\* C16 (witness): the ball that started next to the ground has bounced and
\* risen to the upper part of the surface, where its flight turns
TopReached ==
  /\ ticks >= 90
  /\ \E i \in Bodies :
       /\ balls[i].radius = 11
       /\ balls[i].iy <= 40
       /\ balls[i].dy[1] >= 0

\* C17: in every tick after the first, the cell of every body moves by less
\* than 2 * radius on each axis, and every rectangle erase() issues lies
\* inside the body's old box.
BoundedDisplacement ==
  (Executed /\ ticks >= 2) =>
    \A i \in Bodies :
      /\ Abs(balls[i].ix - balls[i].ox) < 2 * balls[i].radius
      /\ Abs(balls[i].iy - balls[i].oy) < 2 * balls[i].radius
      /\ Filled(ErasesOf(i))
           \subseteq Box(balls[i].ox, balls[i].oy, balls[i].radius)

\* C17 (witness): a body fell six cells or more in one tick, after a bounce
\* off the ground and one off a wall at the latest
FastFall ==
  /\ Executed
  /\ ticks >= 2
  /\ \E i \in Bodies :
       /\ balls[i].iy - balls[i].oy >= 6
       /\ ErasesOf(i) # <<>>

\* C19: while ticks are executed, the body of a long flight bounces off the
\* ground and off a side wall again and again.  dy turns from downwards to
\* upwards only in a ground bounce and dx changes its sign only in a wall
\* bounce; from every state of the first MaxFlightTicks - Horizon ticks the
\* body comes to fall (it neither hovers nor escapes upwards), a falling
\* body comes to rise (a ground bounce), and a body moving right comes to
\* move left and the reverse (wall bounces).
BouncesRecur ==
  /\ [][/\ (balls[1].dy[1] > 0 /\ balls'[1].dy[1] < 0) =>
            GroundHit(balls[1], height)
        /\ Sign(balls[1].dx[1]) # Sign(balls'[1].dx[1]) =>
            WallHit(balls[1], width)]_vars
  /\ (ticks <= MaxFlightTicks - Horizon) ~> (balls[1].dy[1] > 0)
  /\ (ticks <= MaxFlightTicks - Horizon /\ balls[1].dy[1] > 0)
       ~> (balls[1].dy[1] < 0)
  /\ (ticks <= MaxFlightTicks - Horizon /\ balls[1].dx[1] > 0)
       ~> (balls[1].dx[1] < 0)
  /\ (ticks <= MaxFlightTicks - Horizon /\ balls[1].dx[1] < 0)
       ~> (balls[1].dx[1] > 0)

\* C19 (witness): the ball that started in the upper left corner, moving
\* right and down, has bounced off the ground and off the right wall
BouncedBoth ==
  /\ ticks >= 2
  /\ balls[1].radius = 6
  /\ balls[1].dx[1] < 0
  /\ balls[1].dy[1] < 0

=============================================================================
